---- MODULE Spec2Model ----
(***************************************************************************)
(* A model of the cache simulator of spike/riscv/cachesim.cc: the          *)
(* set-associative cache_sim_t, the map-based fa_cache_sim_t, the three    *)
(* replacement policies (victimize, LRU, FIFO) and access with its calls   *)
(* into the miss handler.                                                  *)
(*                                                                         *)
(* A uint64_t is modelled exactly, as the set of the positions of its one  *)
(* bits (0 is the empty set), so that shifts, masks and the VALID/DIRTY    *)
(* flag bits behave as on 64-bit words.                                    *)
(***************************************************************************)
EXTENDS Integers, Sequences, FiniteSets, TLC

\* ------------------------------------------------------------------ bounds

\* Top-level access calls per run (also caps every counter).
MaxAccesses == 3

\* Distinct line-sized regions the driver touches, besides the top address.
NumLines == 2

\* Largest way count of a directly built model (besides Threshold + 1).
MaxWays == 2

\* Top-level access calls per run of the single-set driver.
MaxTrace == 4

\* ------------------------------------------------------- 64-bit words

WordBits == 64

Word0 == {}

RECURSIVE BitsOf(_)
\* The one bits of a natural number.
BitsOf(n) == IF n = 0 THEN {}
             ELSE (IF n % 2 = 1 THEN {0} ELSE {}) \cup {i + 1 : i \in BitsOf(n \div 2)}

RECURSIVE ToNat(_)
\* The value of a word with few bits set (an index, a small mask).
ToNat(x) == IF x = {} THEN 0
            ELSE LET i == CHOOSE j \in x : \A k \in x : k <= j
                 IN (2 ^ i) + ToNat(x \ {i})

\* x >> s and x << s on uint64_t.
Shr(x, s) == {i - s : i \in {j \in x : j >= s}}

Shl(x, s) == {i + s : i \in {j \in x : j + s < WordBits}}

\* static const uint64_t VALID = 1ULL << 63, DIRTY = 1ULL << 62 (cachesim.h).
VALID == {63}

DIRTY == {62}

\* a < b on uint64_t: the highest bit in which they differ is b's.
WordLess(a, b) ==
  a # b /\ LET diff == (a \ b) \cup (b \ a)
               top == CHOOSE j \in diff : \A k \in diff : k <= j
           IN top \in b

\* ------------------------------------------------ construction (init)

NULL == 0

Policies == {"R", "L", "F"}

\* construct: ways > 4 (empirical) && sets == 1 gives the map-based model.
Threshold == 4

RECURSIVE Log2(_)
\* for (x = linesz; x > 1; x >>= 1) idx_shift++
Log2(x) == IF x > 1 THEN 1 + Log2(x \div 2) ELSE 0

\* cache_sim_t::cache_sim_t and init(): zeroed arrays and counters.
init(sets, ways, linesz) ==
  [fa |-> FALSE, sets |-> sets, ways |-> ways, linesz |-> linesz,
   idx_shift |-> Log2(linesz),
   LRUCount |-> 0, FIFOCount |-> 0,
   LRUTime |-> [i \in 0..(sets * ways - 1) |-> 0],
   FIFOTime |-> [i \in 0..(sets * ways - 1) |-> 0],
   tags |-> [i \in 0..(sets * ways - 1) |-> Word0],
   fatags |-> {},
   read_accesses |-> 0, read_misses |-> 0, bytes_read |-> 0,
   write_accesses |-> 0, write_misses |-> 0, bytes_written |-> 0,
   writebacks |-> 0,
   miss_handler |-> NULL]

\* fa_cache_sim_t::fa_cache_sim_t: cache_sim_t(1, ways, linesz) plus an empty map.
fa_cache_sim_t(ways, linesz) == [init(1, ways, linesz) EXCEPT !.fa = TRUE]

\* cache_sim_t::construct, after the string is split into its fields.
construct(sets, ways, linesz) ==
  IF ways > Threshold /\ sets = 1 THEN fa_cache_sim_t(ways, linesz)
  ELSE init(sets, ways, linesz)

\* ------------------------------------------------------------ the heap
\* The operators below are the member functions, written on a record S of
\* everything a call can change:
\*   S.cache  the objects, by id;      S.fault  a NULL pointer was written through;
\*   S.calls  the calls made into miss handlers, in call order;
\*   S.rd     per object, the lfsr draws used so far in this top-level call;
\*   S.res    per object, what its last access call found (hit, victim).

NullPtr == [null |-> TRUE, slot |-> 0, key |-> Word0]

SlotPtr(slot) == [null |-> FALSE, slot |-> slot, key |-> Word0]

KeyPtr(key) == [null |-> FALSE, slot |-> 0, key |-> key]

\* size_t idx = (addr >> idx_shift) & (sets-1)
Idx(c, addr) == ToNat(Shr(addr, c.idx_shift) \cap BitsOf(c.sets - 1))

\* The tag word without its VALID flag.
TagOf_NoValid(c, addr) == Shr(addr, c.idx_shift)

\* (addr >> idx_shift) | VALID
TagOf(c, addr) == Shr(addr, c.idx_shift) \cup VALID

\* The ways i of set idx for which P(idx*ways + i) holds, and the first of them.
WaysWhere(c, idx, P(_)) == {i \in 0..(c.ways - 1) : P(idx * c.ways + i)}

First(ws) == CHOOSE i \in ws : \A j \in ws : i <= j

\* check_tag without the restamp of the hit slot.
check_tag_NoRestamp(S, pol, id, addr) ==
  LET c == S.cache[id]
      idx == Idx(c, addr)
      tag == TagOf(c, addr)
      match(k) == tag = (c.tags[k] \ DIRTY)
      ws == WaysWhere(c, idx, match)
  IN IF ws = {} THEN [S |-> S, ptr |-> NullPtr]
     ELSE [S |-> S, ptr |-> SlotPtr(idx * c.ways + First(ws))]

\* check_tag looking at way 0 of the set only.
check_tag_Way0(S, pol, id, addr) ==
  LET c == S.cache[id]
      k == Idx(c, addr) * c.ways
  IN IF TagOf(c, addr) = (c.tags[k] \ DIRTY)
     THEN [S |-> IF pol = "L"
                 THEN [S EXCEPT !.cache[id].LRUTime[k] = c.LRUCount]
                 ELSE S,
           ptr |-> SlotPtr(k)]
     ELSE [S |-> S, ptr |-> NullPtr]

\* cache_sim_t::check_tag: the first way of the set holding the tag (flags
\* VALID set, DIRTY ignored); under "L" the hit slot is restamped.
check_tag(S, pol, id, addr) ==
  LET c == S.cache[id]
      idx == Idx(c, addr)
      tag == TagOf(c, addr)
      match(k) == tag = (c.tags[k] \ DIRTY)
      ws == WaysWhere(c, idx, match)
  IN IF ws = {} THEN [S |-> S, ptr |-> NullPtr]
     ELSE LET k == idx * c.ways + First(ws)
          IN [S |-> IF pol = "L"
                    THEN [S EXCEPT !.cache[id].LRUTime[k] = c.LRUCount]
                    ELSE S,
              ptr |-> SlotPtr(k)]

\* fa_cache_sim_t::check_tag: tags.find(addr >> idx_shift) in the map.
fa_check_tag(S, pol, id, addr) ==
  LET c == S.cache[id]
      key == Shr(addr, c.idx_shift)
  IN IF \E e \in c.fatags : e.key = key
     THEN [S |-> S, ptr |-> KeyPtr(key)]
     ELSE [S |-> S, ptr |-> NullPtr]

\* The virtual call check_tag(addr).
virtual_check_tag(S, pol, id, addr) ==
  IF S.cache[id].fa THEN fa_check_tag(S, pol, id, addr)
  ELSE check_tag(S, pol, id, addr)

\* lfsr.next() % ways: the next draw of object id in this top-level call.
NextDraw(S, d, id) == d[id][S.rd[id] + 1] % S.cache[id].ways

\* cache_sim_t::victimize: a drawn way of the set, empty or not.
victimize(S, d, id, addr) ==
  LET c == S.cache[id]
      idx == Idx(c, addr)
      way == NextDraw(S, d, id)
      k == idx * c.ways + way
  IN [S |-> [S EXCEPT !.cache[id].tags[k] = TagOf(c, addr),
                      !.rd[id] = @ + 1],
      victim |-> c.tags[k]]

\* The entries of the map in key order, as std::map iterates them.
RECURSIVE InOrder(_)
InOrder(m) ==
  IF m = {} THEN <<>>
  ELSE LET lo == CHOOSE e \in m : \A f \in m : f = e \/ WordLess(e.key, f.key)
       IN <<lo>> \o InOrder(m \ {lo})

\* fa_cache_sim_t::victimize without the erase: the drawn entry is reported
\* but stays in the map.
fa_victimize_NoErase(S, d, id, addr) ==
  LET c == S.cache[id]
      key == Shr(addr, c.idx_shift)
      full == Cardinality(c.fatags) >= c.ways
      it == InOrder(c.fatags)[NextDraw(S, d, id) + 1]
      new == [key |-> key, val |-> TagOf(c, addr)]
  IN [S |-> [S EXCEPT !.cache[id].fatags =
                         {e \in c.fatags : e.key # key} \cup {new},
                      !.rd[id] = IF full THEN @ + 1 ELSE @],
      victim |-> IF full THEN it.val ELSE Word0]

\* fa_cache_sim_t::victimize: at capacity the drawn entry (in key order) is
\* erased; then tags[addr >> idx_shift] is assigned.
fa_victimize(S, d, id, addr) ==
  LET c == S.cache[id]
      key == Shr(addr, c.idx_shift)
      full == Cardinality(c.fatags) = c.ways
      it == InOrder(c.fatags)[NextDraw(S, d, id) + 1]
      kept == IF full THEN c.fatags \ {it} ELSE c.fatags
      new == [key |-> key, val |-> TagOf(c, addr)]
  IN [S |-> [S EXCEPT !.cache[id].fatags =
                         {e \in kept : e.key # key} \cup {new},
                      !.rd[id] = IF full THEN @ + 1 ELSE @],
      victim |-> IF full THEN it.val ELSE Word0]

\* The virtual call victimize(addr).
virtual_victimize(S, d, id, addr) ==
  IF S.cache[id].fa THEN fa_victimize(S, d, id, addr)
  ELSE victimize(S, d, id, addr)

IntMax == 2147483647

\* The scan with the comparison turned round: the first way of the largest stamp.
MaxScan(c, idx, stamp) ==
  LET all(k) == TRUE
      ws == WaysWhere(c, idx, all)
      most(k) == \A j \in ws : stamp[idx * c.ways + j] <= stamp[k]
  IN First(WaysWhere(c, idx, most))

\* The way the min-scan of LRU and FIFO ends on: from count = INT_MAX, the
\* first way whose stamp is below every earlier one (way 0 if none is below).
MinScan(c, idx, stamp) ==
  LET below(k) == stamp[k] < IntMax
      ws == WaysWhere(c, idx, below)
      least(k) == below(k) /\ \A j \in ws : stamp[idx * c.ways + j] >= stamp[k]
  IN IF ws = {} THEN 0 ELSE First(WaysWhere(c, idx, least))

\* The first loop without its "way = i": the slot taken is way 0.
EmptyScan_Way0(c, idx) ==
  LET empty(k) == c.tags[k] = Word0
      es == WaysWhere(c, idx, empty)
  IN [isSthEmpty |-> es # {}, way |-> 0]

\* The first loop of LRU and FIFO: the first way of the set whose slot is 0.
EmptyScan(c, idx) ==
  LET empty(k) == c.tags[k] = Word0
      es == WaysWhere(c, idx, empty)
  IN [isSthEmpty |-> es # {}, way |-> IF es # {} THEN First(es) ELSE 0]

\* LRU with the min-scan lost: a full set gives up its way 0.
LRU_FirstWay(S, id, addr) ==
  LET c == S.cache[id]
      idx == Idx(c, addr)
      isSthEmpty == EmptyScan(c, idx).isSthEmpty
      way == IF isSthEmpty THEN EmptyScan(c, idx).way ELSE 0
      k == idx * c.ways + way
      cnt == IF isSthEmpty THEN c.LRUCount + 1 ELSE c.LRUCount
  IN [S |-> [S EXCEPT !.cache[id].LRUTime[k] = cnt,
                      !.cache[id].LRUCount = cnt + 1,
                      !.cache[id].tags[k] = TagOf(c, addr)],
      victim |-> c.tags[k]]

\* cache_sim_t::LRU, on the tags array of the base class.
LRU(S, id, addr) ==
  LET c == S.cache[id]
      idx == Idx(c, addr)
      isSthEmpty == EmptyScan(c, idx).isSthEmpty
      way == IF isSthEmpty THEN EmptyScan(c, idx).way
             ELSE MinScan(c, idx, c.LRUTime)
      k == idx * c.ways + way
      \* LRUTime[..] = LRUCount++ in the empty-slot scan
      cnt == IF isSthEmpty THEN c.LRUCount + 1 ELSE c.LRUCount
  IN [S |-> [S EXCEPT !.cache[id].LRUTime[k] = cnt,
                      !.cache[id].LRUCount = cnt + 1,
                      !.cache[id].tags[k] = TagOf(c, addr)],
      victim |-> c.tags[k]]

\* cache_sim_t::FIFO, on the tags array of the base class.
FIFO(S, id, addr) ==
  LET c == S.cache[id]
      idx == Idx(c, addr)
      isSthEmpty == EmptyScan(c, idx).isSthEmpty
      way == IF isSthEmpty THEN EmptyScan(c, idx).way
             ELSE MinScan(c, idx, c.FIFOTime)
      k == idx * c.ways + way
  IN [S |-> [S EXCEPT !.cache[id].FIFOTime[k] = c.FIFOCount,
                      !.cache[id].tags[k] = TagOf(c, addr)],
      victim |-> c.tags[k]]

\* *ptr |= DIRTY with the store to the slot lost.
OrDirty_Lost(S, id, ptr) ==
  IF ptr.null THEN [S EXCEPT !.fault = TRUE] ELSE S

\* *ptr |= DIRTY. Writing through NULL is undefined behaviour; every build
\* stores to address 0 there, which ends the process: S.fault.
OrDirty(S, id, ptr) ==
  IF ptr.null THEN [S EXCEPT !.fault = TRUE]
  ELSE IF S.cache[id].fa
  THEN [S EXCEPT !.cache[id].fatags =
          {IF e.key = ptr.key THEN [e EXCEPT !.val = @ \cup DIRTY] ELSE e : e \in @}]
  ELSE [S EXCEPT !.cache[id].tags[ptr.slot] = @ \cup DIRTY]

\* A call into the miss handler, noted in call order.
Call(S, from, to, addr, bytes, store) ==
  [S EXCEPT !.calls = Append(@, [from |-> from, to |-> to, addr |-> addr,
                                  bytes |-> bytes, store |-> store])]

\* The test on the victim with the DIRTY flag left out.
IsDirtyVictim_ValidOnly(victim) == (victim \cap VALID) = VALID

\* (victim & (VALID | DIRTY)) == (VALID | DIRTY)
IsDirtyVictim(victim) == (victim \cap (VALID \cup DIRTY)) = (VALID \cup DIRTY)

\* The victim's address without the shift back to a byte address.
DirtyAddr_NoShift(c, victim) == victim \ (VALID \cup DIRTY)

\* uint64_t dirty_addr = (victim & ~(VALID | DIRTY)) << idx_shift
DirtyAddr(c, victim) == Shl(victim \ (VALID \cup DIRTY), c.idx_shift)

\* addr & ~(linesz-1)
FillAddr(c, addr) == addr \ BitsOf(c.linesz - 1)

\* The fill requested before the victim is written back.
FillFirst == FALSE

\* The order of the two calls a miss makes into its handler: the writeback
\* block comes before the fill.
WritebackFirst == TRUE

\* F(x), with x evaluated once (a statement's result, used by the next).
Then(x, F(_)) == CHOOSE r \in {F(y) : y \in {x}} : TRUE

\* The first statements of access without the two policy counters.
Count_NoPolicyCounter(S, pol, id, bytes, store) ==
  [S EXCEPT
     !.cache[id].write_accesses = IF store THEN @ + 1 ELSE @,
     !.cache[id].read_accesses = IF store THEN @ ELSE @ + 1,
     !.cache[id].bytes_written = IF store THEN @ + bytes ELSE @,
     !.cache[id].bytes_read = IF store THEN @ ELSE @ + bytes]

\* The first statements of access, counting a miss as well.
Count_AlsoMiss(S, pol, id, bytes, store) ==
  [S EXCEPT
     !.cache[id].LRUCount = IF pol = "L" THEN @ + 1 ELSE @,
     !.cache[id].FIFOCount = IF pol = "F" THEN @ + 1 ELSE @,
     !.cache[id].write_accesses = IF store THEN @ + 1 ELSE @,
     !.cache[id].read_accesses = IF store THEN @ ELSE @ + 1,
     !.cache[id].bytes_written = IF store THEN @ + bytes ELSE @,
     !.cache[id].bytes_read = IF store THEN @ ELSE @ + bytes,
     !.cache[id].write_misses = IF store THEN @ + 1 ELSE @,
     !.cache[id].read_misses = IF store THEN @ ELSE @ + 1]

\* The first statements of access: the policy counter and the access and
\* byte counters.
Count(S, pol, id, bytes, store) ==
  [S EXCEPT
     !.cache[id].LRUCount = IF pol = "L" THEN @ + 1 ELSE @,
     !.cache[id].FIFOCount = IF pol = "F" THEN @ + 1 ELSE @,
     !.cache[id].write_accesses = IF store THEN @ + 1 ELSE @,
     !.cache[id].read_accesses = IF store THEN @ ELSE @ + 1,
     !.cache[id].bytes_written = IF store THEN @ + bytes ELSE @,
     !.cache[id].bytes_read = IF store THEN @ ELSE @ + bytes]

\* store ? write_misses++ : read_misses++, then the policy's victim.
Miss(S, pol, d, id, addr, store) ==
  Then([S EXCEPT
          !.cache[id].write_misses = IF store THEN @ + 1 ELSE @,
          !.cache[id].read_misses = IF store THEN @ ELSE @ + 1],
       LAMBDA S2 :
         IF pol = "R" THEN virtual_victimize(S2, d, id, addr)
         ELSE IF pol = "L" THEN LRU(S2, id, addr)
         ELSE IF pol = "F" THEN FIFO(S2, id, addr)
         ELSE [S |-> S2, victim |-> Word0])

RECURSIVE access(_, _, _, _, _, _, _)
\* cache_sim_t::access(addr, bytes, store) on object id, with the calls it
\* makes into miss_handler. A fault below ends the process: nothing after
\* the faulting statement runs.
access(S, pol, d, id, addr, bytes, store) ==
  LET c == S.cache[id]
      mh == c.miss_handler
      fill_addr == FillAddr(c, addr)
      Hit(ct) ==
        [(IF store THEN OrDirty(ct.S, id, ct.ptr) ELSE ct.S)
           EXCEPT !.res[id] = [hit |-> TRUE, victim |-> Word0]]
      DoWb(T, victim) ==
        IF T.fault \/ ~IsDirtyVictim(victim) THEN T
        ELSE Then(IF mh # NULL
                  THEN access(Call(T, id, mh, DirtyAddr(c, victim), c.linesz, TRUE),
                              pol, d, mh, DirtyAddr(c, victim), c.linesz, TRUE)
                  ELSE T,
                  LAMBDA T1 : IF T1.fault THEN T1
                              ELSE [T1 EXCEPT !.cache[id].writebacks = @ + 1])
      DoFill(T) ==
        IF T.fault \/ mh = NULL THEN T
        ELSE access(Call(T, id, mh, fill_addr, c.linesz, FALSE),
                    pol, d, mh, fill_addr, c.linesz, FALSE)
      Remark(T) ==
        IF T.fault \/ ~store THEN T
        ELSE Then(virtual_check_tag(T, pol, id, addr),
                  LAMBDA ct2 : OrDirty(ct2.S, id, ct2.ptr))
      AfterMiss(v) ==
        Then([v.S EXCEPT !.res[id] = [hit |-> FALSE, victim |-> v.victim]],
             LAMBDA S3 :
               IF WritebackFirst
               THEN Then(DoWb(S3, v.victim), LAMBDA S4 : Then(DoFill(S4), Remark))
               ELSE Then(DoFill(S3),
                         LAMBDA S4 : Then(DoWb(S4, v.victim), Remark)))
  IN Then(virtual_check_tag(Count(S, pol, id, bytes, store), pol, id, addr),
          LAMBDA ct :
            IF ~ct.ptr.null THEN Hit(ct)
            ELSE Then(Miss(ct.S, pol, d, id, addr, store), AfterMiss))

\* The miss rate from the read misses alone.
print_stats_ReadOnly(c) ==
  IF c.read_accesses + c.write_accesses = 0
  THEN [printed |-> FALSE, num |-> 0, den |-> 1]
  ELSE [printed |-> TRUE, num |-> 100 * c.read_misses,
        den |-> c.read_accesses + c.write_accesses]

\* float mr = 100.0f*(read_misses+write_misses)/(read_accesses+write_accesses),
\* as the fraction num/den; nothing is printed when there was no access.
print_stats(c) ==
  IF c.read_accesses + c.write_accesses = 0
  THEN [printed |-> FALSE, num |-> 0, den |-> 1]
  ELSE [printed |-> TRUE, num |-> 100 * (c.read_misses + c.write_misses),
        den |-> c.read_accesses + c.write_accesses]

\* ------------------------------------------------------------ the state

VARIABLES
  cache,    \* the cache objects, by id (miss_handler holds an id, or NULL)
  policy,   \* char* policy: the process-wide policy string
  fault,    \* the process wrote through a NULL pointer and is gone
  calls,    \* the miss-handler calls of the last top-level access, in order
  hist,     \* per object, the top-level access calls made on it and what each found
  config    \* per object, the policy character of the string it was constructed from

vars == <<cache, policy, fault, calls, hist, config>>

Ids == {1, 2}

\* The driver's addresses: one per line-sized region, none line-aligned but
\* the first, and the top address 2^64 - 1.
Addrs == {BitsOf(16 * i + i) : i \in 0..(NumLines - 1)} \cup {0..(WordBits - 1)}

ByteCounts == {4}

\* The lfsr draws a top-level call can use: object id is entered at most
\* 2^(id-1) times (a writeback and a fill per miss above it) and draws at
\* most once per entry, a value that matters modulo ways. Only "R" draws.
DrawsOf(id) ==
  IF policy = "R" THEN [1..(2 ^ (id - 1)) -> 0..(cache[id].ways - 1)]
  ELSE {[k \in 1..(2 ^ (id - 1)) |-> 0]}

\* The heap a top-level call starts on.
Heap == [cache |-> cache, fault |-> FALSE, calls |-> <<>>,
         rd |-> [i \in Ids |-> 0],
         res |-> [i \in Ids |-> [hit |-> FALSE, victim |-> Word0]]]

\* What the driver notes of a top-level call on object id once it is over
\* (in S): the arguments, what the call found, the object's miss and
\* writeback counters.
Noted(S, id, addr, bytes, store) ==
  [addr |-> addr, bytes |-> bytes, store |-> store,
   hit |-> S.res[id].hit, victim |-> S.res[id].victim, fault |-> S.fault,
   read_misses |-> S.cache[id].read_misses,
   write_misses |-> S.cache[id].write_misses,
   writebacks |-> S.cache[id].writebacks]

\* A top-level access(addr, bytes, store) on object id.
Access(id) ==
  /\ ~fault
  /\ Len(hist[id]) < MaxAccesses
  /\ \E addr \in Addrs, bytes \in ByteCounts, store \in BOOLEAN,
        d1 \in DrawsOf(1), d2 \in DrawsOf(2) :
       \E S \in {access(Heap, policy, <<d1, d2>>, id, addr, bytes, store)} :
          /\ cache' = S.cache
          /\ fault' = S.fault
          /\ calls' = S.calls
          /\ hist' = [hist EXCEPT ![id] = Append(@, Noted(S, id, addr, bytes, store))]
          /\ UNCHANGED <<policy, config>>

LineSizes == {8, 16}

SetCounts == {1, 2}

\* The objects the harness can build: by construct, or by the constructors.
Built ==
  {construct(s, w, l) : s \in SetCounts, w \in 1..MaxWays, l \in LineSizes}
  \cup {construct(1, Threshold + 1, l) : l \in LineSizes}
  \cup {fa_cache_sim_t(w, l) : w \in 1..MaxWays, l \in LineSizes}

\* The next level of the chain: an array-based model of the larger line size.
NextLevel == init(2, 1, 16)

\* After construction and wiring: object 1 faces the driver and object 2 is
\* its miss handler (set_miss_handler); policy holds the character of the
\* last construct call.
Init ==
  /\ policy \in Policies
  /\ \E c1 \in Built :
       cache = [i \in Ids |-> IF i = 1 THEN [c1 EXCEPT !.miss_handler = 2]
                              ELSE NextLevel]
  /\ fault = FALSE
  /\ calls = <<>>
  /\ hist = [i \in Ids |-> <<>>]
  /\ config = [i \in Ids |-> policy]

Next == Access(1)

Spec == Init /\ [][Next]_vars

\* ------------------------------------------- the scripted scenarios

\* The spec's test scenarios, as the lines touched, numbered by first use:
\* A,B,C,D,A,E (LRU and FIFO ordering) and 0,1,0,2 (miss rate).
Scenarios == {<<1, 2, 3, 4, 1, 5>>, <<1, 2, 1, 3>>}

\* The address of line number i of set number `set` of object c.
ScenAddr(c, set, i) == BitsOf(((i - 1) * c.sets + set) * c.linesz)

\* The line number of a tag word or of addr >> idx_shift (flags dropped).
LineNo(c, w) == (ToNat(w \ (VALID \cup DIRTY)) \div c.sets) + 1

\* The lines object 1 was accessed at, by number, in order.
Pattern ==
  [n \in 1..Len(hist[1]) |-> LineNo(cache[1], Shr(hist[1][n].addr, cache[1].idx_shift))]

\* The driver plays the next access of a scenario, all in one set.
Scripted ==
  /\ ~fault
  /\ \E p \in Scenarios, set \in 0..(cache[1].sets - 1), bytes \in ByteCounts,
        store \in BOOLEAN, d1 \in DrawsOf(1), d2 \in DrawsOf(2) :
       /\ Len(hist[1]) < Len(p)
       /\ Pattern = SubSeq(p, 1, Len(hist[1]))
       /\ hist[1] # <<>> => set = Idx(cache[1], hist[1][1].addr)
       /\ \E S \in {access(Heap, policy, <<d1, d2>>, 1,
                           ScenAddr(cache[1], set, p[Len(hist[1]) + 1]), bytes, store)} :
            /\ cache' = S.cache
            /\ fault' = S.fault
            /\ calls' = S.calls
            /\ hist' = [hist EXCEPT ![1] =
                 Append(@, Noted(S, 1, ScenAddr(cache[1], set, p[Len(hist[1]) + 1]),
                                 bytes, store))]
            /\ UNCHANGED <<policy, config>>

\* An array-based model of up to Threshold ways, as construct builds it,
\* with its miss handler, under a deterministic policy.
InitScenario ==
  /\ policy \in {"L", "F"}
  /\ \E s \in SetCounts, w \in 1..Threshold, l \in LineSizes :
       cache = [i \in Ids |-> IF i = 1
                              THEN [construct(s, w, l) EXCEPT !.miss_handler = 2]
                              ELSE NextLevel]
  /\ fault = FALSE
  /\ calls = <<>>
  /\ hist = [i \in Ids |-> <<>>]
  /\ config = [i \in Ids |-> policy]

NextScenario == Scripted

SpecScenario == InitScenario /\ [][NextScenario]_vars

\* ------------------------------------- the two implementations, side by side

\* The same access on the map-based object 1 and then on the array-based
\* object 2 (no call is made once the process is gone).
AccessBoth ==
  /\ ~fault
  /\ Len(hist[1]) < MaxAccesses
  /\ \E addr \in Addrs, bytes \in ByteCounts, store \in BOOLEAN,
        d1 \in [1..1 -> 0..(cache[1].ways - 1)], d2 \in [1..1 -> 0..(cache[2].ways - 1)] :
       \E S1 \in {access(Heap, policy, <<d1, d2>>, 1, addr, bytes, store)} :
       \E S \in {IF S1.fault THEN S1
                 ELSE access(S1, policy, <<d1, d2>>, 2, addr, bytes, store)} :
          /\ cache' = S.cache
          /\ fault' = S.fault
          /\ calls' = S.calls
          /\ hist' = [i \in Ids |->
                        IF i = 2 /\ S1.fault THEN hist[i]
                        ELSE Append(hist[i],
                                    Noted(IF i = 1 THEN S1 ELSE S, i, addr, bytes, store))]
          /\ UNCHANGED <<policy, config>>

\* fa_cache_sim_t(ways, linesz) and cache_sim_t(1, ways, linesz), no handlers.
InitTwin ==
  /\ policy \in Policies
  /\ \E w \in (1..MaxWays) \cup {Threshold + 1}, l \in LineSizes :
       cache = [i \in Ids |-> IF i = 1 THEN fa_cache_sim_t(w, l) ELSE init(1, w, l)]
  /\ fault = FALSE
  /\ calls = <<>>
  /\ hist = [i \in Ids |-> <<>>]
  /\ config = [i \in Ids |-> policy]

NextTwin == AccessBoth

SpecTwin == InitTwin /\ [][NextTwin]_vars

\* ------------------------------------------- one set, longer traces

\* The driver's addresses in the single-set runs: one per line.
SetAddrs == {ScenAddr(cache[1], 0, i) : i \in 1..(NumLines + 1)}

\* A top-level access on object 1 at one of the lines of its set.
AccessSet ==
  /\ ~fault
  /\ Len(hist[1]) < MaxTrace
  /\ \E addr \in SetAddrs, bytes \in ByteCounts, store \in BOOLEAN,
        d1 \in DrawsOf(1), d2 \in DrawsOf(2) :
       \E S \in {access(Heap, policy, <<d1, d2>>, 1, addr, bytes, store)} :
          /\ cache' = S.cache
          /\ fault' = S.fault
          /\ calls' = S.calls
          /\ hist' = [hist EXCEPT ![1] = Append(@, Noted(S, 1, addr, bytes, store))]
          /\ UNCHANGED <<policy, config>>

\* cache_sim_t(1, ways, 8) with no miss handler, under LRU or FIFO.
InitSet ==
  /\ policy \in {"L", "F"}
  /\ \E w \in 1..MaxWays :
       cache = [i \in Ids |-> IF i = 1 THEN init(1, w, 8) ELSE NextLevel]
  /\ fault = FALSE
  /\ calls = <<>>
  /\ hist = [i \in Ids |-> <<>>]
  /\ config = [i \in Ids |-> policy]

NextSet == AccessSet

SpecSet == InitSet /\ [][NextSet]_vars

\* ------------------------------------ construction after construction

\* cache_sim_t::construct called again: policy[0] takes the new string's
\* policy character; the object returned takes id 2.
Construct ==
  /\ ~fault
  /\ \E p \in Policies :
       /\ policy' = p
       /\ cache' = [cache EXCEPT ![2] = construct(1, 1, 8)]
       /\ config' = [config EXCEPT ![2] = p]
       /\ hist' = [hist EXCEPT ![2] = <<>>]
  /\ UNCHANGED <<fault, calls>>

\* Two models built by construct from strings of the same policy character,
\* no miss handlers.
InitRebuild ==
  /\ policy \in Policies
  /\ \E s \in SetCounts, w \in 1..MaxWays :
       cache = [i \in Ids |-> IF i = 1 THEN construct(s, w, 8) ELSE construct(1, 1, 8)]
  /\ fault = FALSE
  /\ calls = <<>>
  /\ hist = [i \in Ids |-> <<>>]
  /\ config = [i \in Ids |-> policy]

NextRebuild == Access(1) \/ Construct

SpecRebuild == InitRebuild /\ [][NextRebuild]_vars

\* ------------------------------------------ with and without a handler

\* A model built by construct, with the next level attached as its miss
\* handler (set_miss_handler) or left without one.
InitChain ==
  /\ policy \in Policies
  /\ \E c1 \in {construct(s, w, 8) : s \in SetCounts, w \in 1..MaxWays}
                \cup {construct(1, Threshold + 1, 8)},
        mh \in {2, NULL} :
       cache = [i \in Ids |-> IF i = 1 THEN [c1 EXCEPT !.miss_handler = mh]
                              ELSE NextLevel]
  /\ fault = FALSE
  /\ calls = <<>>
  /\ hist = [i \in Ids |-> <<>>]
  /\ config = [i \in Ids |-> policy]

NextChain == Access(1)

SpecChain == InitChain /\ [][NextChain]_vars

\* ------------------------------------------------------------- claims

\* What the driver noted on object 1, and the last of it.
H == hist[1]

N == Len(hist[1])

\* The line of set-associative object 1 evicted by its n-th access, by
\* number (0: the access hit, or the slot taken was empty).
Evicted(n) ==
  IF ~H[n].hit /\ VALID \subseteq H[n].victim THEN LineNo(cache[1], H[n].victim)
  ELSE 0

ScenarioABCDAE == <<1, 2, 3, 4, 1, 5>>

\* C1 as stated: with ways = 3 under LRU, after A,B,C,D,A the access to E
\* evicts B.
C1_AsStated ==
  (policy = "L" /\ cache[1].ways = 3 /\ Pattern = ScenarioABCDAE)
    => Evicted(6) = 2

\* C1, amended: under LRU, after A,B,C,D,A,E from an empty set: with
\* ways = 3, D evicts A, the repeat access to A misses and evicts B, and E
\* evicts C; with ways = 4 the repeat access to A hits and E evicts B.
C1_LRUOrdering ==
  (policy = "L" /\ Pattern = ScenarioABCDAE)
    => /\ cache[1].ways = 3 =>
            /\ Evicted(4) = 1
            /\ ~H[5].hit /\ Evicted(5) = 2
            /\ Evicted(6) = 3
       /\ cache[1].ways = 4 =>
            /\ \A n \in 1..4 : ~H[n].hit /\ Evicted(n) = 0
            /\ H[5].hit
            /\ Evicted(6) = 2

C1_Witness ==
  /\ policy = "L" /\ cache[1].ways \in {3, 4} /\ Pattern = ScenarioABCDAE
  /\ Evicted(6) \in {2, 3}

\* C2 as stated: with ways = 3 under FIFO, after A,B,C,D and a repeat touch
\* of A (which changes nothing), the access to E evicts A.
C2_AsStated ==
  (policy = "F" /\ cache[1].ways = 3 /\ Pattern = ScenarioABCDAE)
    => H[5].hit /\ Evicted(6) = 1

\* C2, amended: under FIFO, after A,B,C,D,A,E from an empty set: with
\* ways = 3, D evicts A, the repeat access to A misses and evicts B, and E
\* evicts C; with ways = 4 the repeat touch of A hits, changes no stamp, and
\* E evicts A.
C2_FIFOOrdering ==
  (policy = "F" /\ Pattern = ScenarioABCDAE)
    => /\ cache[1].ways = 3 =>
            /\ Evicted(4) = 1
            /\ ~H[5].hit /\ Evicted(5) = 2
            /\ Evicted(6) = 3
       /\ cache[1].ways = 4 =>
            /\ \A n \in 1..4 : ~H[n].hit /\ Evicted(n) = 0
            /\ H[5].hit
            /\ Evicted(6) = 1

C2_Witness ==
  /\ policy = "F" /\ cache[1].ways \in {3, 4} /\ Pattern = ScenarioABCDAE
  /\ Evicted(6) \in {1, 3}

\* What construct can return: the map-based model exactly when ways > 4
\* and sets = 1.
FromConstruct(c) == c.fa <=> (c.ways > Threshold /\ c.sets = 1)

\* C3: for every model construct can produce, under R, L or F, every access
\* call completes without fault: the lookup after a store miss finds the
\* line just installed.
C3_NoFault ==
  (FromConstruct(cache[1]) /\ policy \in Policies) => ~fault

\* C4: once an access to an address has returned, an immediately following
\* read of that address hits: no miss counter and no writeback counter moves;
\* for every model kind and policy.
C4_IdempotentHits ==
  \A n \in 2..N :
    (/\ FromConstruct(cache[1]) /\ policy \in Policies
     /\ H[n].addr = H[n - 1].addr /\ ~H[n].store /\ ~H[n - 1].fault)
      => /\ H[n].hit /\ ~H[n].fault
         /\ H[n].read_misses = H[n - 1].read_misses
         /\ H[n].write_misses = H[n - 1].write_misses
         /\ H[n].writebacks = H[n - 1].writebacks

\* addr with its offset bits cleared, by object c's line size.
LineAddr(c, addr) == addr \ (0..(c.idx_shift - 1))

\* The n-th access of object 1 evicted a valid line that its m-th access, a
\* write miss, had installed, not evicted in between.
EvictsWriteMissLine(m, n) ==
  /\ m < n
  /\ H[m].store /\ ~H[m].hit /\ ~H[m].fault
  /\ ~H[n].hit /\ VALID \subseteq H[n].victim
  /\ H[n].victim \ (VALID \cup DIRTY) = Shr(H[m].addr, cache[1].idx_shift)
  /\ \A j \in (m + 1)..(n - 1) :
       ~(~H[j].hit /\ VALID \subseteq H[j].victim
           /\ H[j].victim \ (VALID \cup DIRTY) = H[n].victim \ (VALID \cup DIRTY))

\* The calls object 1 made into its handler during the last access.
CallsOut == SelectSeq(calls, LAMBDA k : k.from = 1)

Writes(q) == SelectSeq(q, LAMBDA k : k.store)

\* C5: the eviction of a line installed by a write miss makes exactly one
\* call of the next level's access with store = true, at the victim's
\* line-aligned address, of linesz bytes, and adds one to writebacks.
C5_DirtyPropagation ==
  \A m \in 1..N :
    EvictsWriteMissLine(m, N)
      => /\ Writes(CallsOut) =
              <<[from |-> 1, to |-> cache[1].miss_handler,
                 addr |-> LineAddr(cache[1], H[m].addr),
                 bytes |-> cache[1].linesz, store |-> TRUE]>>
         /\ H[N].writebacks = H[N - 1].writebacks + 1
         /\ cache[1].writebacks = H[N].writebacks

C5_Witness ==
  \E m \in 1..N :
    /\ EvictsWriteMissLine(m, N)
    /\ H[m].addr # LineAddr(cache[1], H[m].addr)
    /\ LineAddr(cache[1], H[m].addr) # Word0

\* C6: with sets = 1 and the same ways and lineSize, the map-based and the
\* array-based model give the same hit/miss sequence on the same trace under
\* LRU or FIFO.
C6_SameHitSequence ==
  policy \in {"L", "F"}
    => \A n \in 1..Len(hist[2]) : hist[1][n].hit = hist[2][n].hit

\* The lines of the set of H[n].addr that object 1 was accessed at before
\* its n-th access.
LinesBefore(n) ==
  {Shr(H[j].addr, cache[1].idx_shift) :
     j \in {i \in 1..(n - 1) : Idx(cache[1], H[i].addr) = Idx(cache[1], H[n].addr)}}

\* C7: in a set-associative model under LRU or FIFO, an access to a line new
\* to its set misses; a miss evicts no valid line while fewer than `ways`
\* distinct lines of its set were accessed before it, and evicts a valid line
\* from the (ways+1)-th distinct line on.
C7_Capacity ==
  (~cache[1].fa /\ policy \in {"L", "F"})
    => \A n \in 1..N :
         /\ Shr(H[n].addr, cache[1].idx_shift) \notin LinesBefore(n) => ~H[n].hit
         /\ ~H[n].hit =>
              ((VALID \subseteq H[n].victim)
                 <=> Cardinality(LinesBefore(n)) >= cache[1].ways)
         /\ ~H[n].hit /\ Cardinality(LinesBefore(n)) < cache[1].ways
              => H[n].victim = Word0

C7_Witness ==
  /\ ~cache[1].fa /\ policy \in {"L", "F"} /\ cache[1].ways = 2
  /\ N = 3 /\ ~H[3].hit /\ VALID \subseteq H[3].victim
  /\ H[2].victim = Word0

\* C8: sets=1, ways=2, lineSize=8 under LRU, accessed from empty at line
\* addresses 0, 1, 0, 2: miss, miss, hit, miss; the miss rate is 75.
C8_MissRate ==
  (/\ policy = "L" /\ ~cache[1].fa
   /\ cache[1].sets = 1 /\ cache[1].ways = 2 /\ cache[1].linesz = 8
   /\ [n \in 1..N |-> H[n].addr] = <<BitsOf(0), BitsOf(8), BitsOf(0), BitsOf(16)>>)
    => /\ [n \in 1..N |-> H[n].hit] = <<FALSE, FALSE, TRUE, FALSE>>
       /\ cache[1].read_misses + cache[1].write_misses = 3
       /\ print_stats(cache[1]).printed
       /\ print_stats(cache[1]).num = 75 * print_stats(cache[1]).den

C8_Witness ==
  /\ policy = "L" /\ ~cache[1].fa
  /\ cache[1].sets = 1 /\ cache[1].ways = 2 /\ cache[1].linesz = 8
  /\ [n \in 1..N |-> H[n].addr] = <<BitsOf(0), BitsOf(8), BitsOf(0), BitsOf(16)>>
  /\ \E n \in 1..N : H[n].store

\* The last access of object 1 missed on a valid, dirty victim, with a
\* handler attached.
DirtyMiss ==
  /\ N >= 1 /\ ~H[N].hit
  /\ (VALID \cup DIRTY) \subseteq H[N].victim
  /\ cache[1].miss_handler # NULL

\* C9: on a miss whose victim is valid and dirty the handler is called for
\* the writeback (store, the victim's address) and then for the fill (no
\* store, the line-aligned new address); both calls are over, their effect
\* on the handler in place, when the access returns.
C9_WritebackBeforeFill ==
  DirtyMiss
    => /\ Len(CallsOut) = 2
       /\ CallsOut[1].store
       /\ CallsOut[1].addr = Shl(H[N].victim \ (VALID \cup DIRTY), cache[1].idx_shift)
       /\ ~CallsOut[2].store
       /\ CallsOut[2].addr = LineAddr(cache[1], H[N].addr)
       /\ \A k \in 1..2 : CallsOut[k].to = cache[1].miss_handler
                          /\ CallsOut[k].bytes = cache[1].linesz
       /\ cache[cache[1].miss_handler].write_accesses = cache[1].writebacks
       /\ cache[cache[1].miss_handler].read_accesses =
            cache[1].read_misses + cache[1].write_misses

C9_Witness ==
  /\ DirtyMiss
  /\ CallsOut[1].addr # CallsOut[2].addr
  /\ CallsOut[1].addr # Word0

\* The words held by the slots of object id: the array, and the map's values.
Slots(id) ==
  {cache[id].tags[k] : k \in DOMAIN cache[id].tags}
    \cup {e.val : e \in cache[id].fatags}

\* The addresses object id has been accessed at: by the driver, or by the
\* object above it in the last access.
Accessed(id) ==
  {hist[id][n].addr : n \in 1..Len(hist[id])}
    \cup {calls[k].addr : k \in {j \in 1..Len(calls) : calls[j].to = id}}

\* C10: every slot whose DIRTY flag is set has its VALID flag set, an empty
\* slot is not dirty, and the tag bits of an accessed address (lineSize >= 8)
\* are disjoint from the two flag bits.
C10_DirtyImpliesValid ==
  \A id \in Ids :
    /\ \A w \in Slots(id) : DIRTY \subseteq w => VALID \subseteq w
    /\ \A w \in Slots(id) : w \cap VALID = {} => w = Word0
    /\ \A a \in Accessed(id) :
         Shr(a, cache[id].idx_shift) \cap (VALID \cup DIRTY) = {}

C10_Witness ==
  /\ \E id \in Ids : \E w \in Slots(id) : (VALID \cup DIRTY) \subseteq w
  /\ \E n \in 1..N : H[n].addr = 0..(WordBits - 1) /\ H[n].store

\* The slots of set idx of array-based object id that hold a valid line.
Resident(id, idx) ==
  {k \in (idx * cache[id].ways)..(idx * cache[id].ways + cache[id].ways - 1) :
     VALID \subseteq cache[id].tags[k]}

\* C11: in every reachable state of a set-associative model, under R, L or
\* F, each set holds at most `ways` resident tags and no line tag is resident
\* in two slots of the same set.
C11_SetUniqueness ==
  \A id \in Ids :
    ~cache[id].fa =>
      \A idx \in 0..(cache[id].sets - 1) :
        /\ Cardinality({cache[id].tags[k] \ DIRTY : k \in Resident(id, idx)})
              <= cache[id].ways
        /\ \A j, k \in Resident(id, idx) :
             (cache[id].tags[j] \ DIRTY) = (cache[id].tags[k] \ DIRTY) => j = k

\* A full two-way set (one of its lines dirty) that has seen a hit and an
\* eviction.
C11_Witness ==
  /\ ~cache[1].fa /\ cache[1].ways = 2
  /\ \E idx \in 0..(cache[1].sets - 1) :
       /\ Cardinality(Resident(1, idx)) = 2
       /\ \E k \in Resident(1, idx) : DIRTY \subseteq cache[1].tags[k]
  /\ N = 3 /\ \E n \in 1..N : ~H[n].hit /\ VALID \subseteq H[n].victim

\* C12: under LRU the LRU counter, and under FIFO the FIFO counter, of the
\* model grows by exactly one per access call, whether the call hits, misses
\* into an empty slot or misses into a full set.
C12_CounterStep ==
  [][(hist'[1] # hist[1] /\ ~fault' /\ ~cache[1].fa)
       => /\ policy = "L" => cache'[1].LRUCount = cache[1].LRUCount + 1
          /\ policy = "F" => cache'[1].FIFOCount = cache[1].FIFOCount + 1]_vars

\* The line (addr >> idx_shift) of object 1's n-th access, and of its victim.
LineOf(n) == Shr(H[n].addr, cache[1].idx_shift)

VictimLine(n) == H[n].victim \ (VALID \cup DIRTY)

\* The accesses before the n-th that were at line l.
UsesBefore(l, n) == {j \in 1..(n - 1) : LineOf(j) = l}

Latest(js) == CHOOSE j \in js : \A i \in js : i <= j

\* The lines of the set of the n-th access resident just before it, by the
\* trace alone: accessed before, and not evicted since their last access.
ResidentBefore(n) ==
  {l \in LinesBefore(n) :
     \A i \in (Latest(UsesBefore(l, n)) + 1)..(n - 1) :
       ~(~H[i].hit /\ VALID \subseteq H[i].victim /\ VictimLine(i) = l)}

\* The last access before the n-th at line l, and the last one that missed
\* (the install of a resident line).
LastUse(l, n) == Latest(UsesBefore(l, n))

Installed(l, n) == Latest({j \in UsesBefore(l, n) : ~H[j].hit})

\* The n-th access missed on a set with no empty slot.
MissOnFullSet(n) ==
  ~H[n].hit /\ Cardinality(ResidentBefore(n)) = cache[1].ways

\* C13: in a set-associative model under LRU, a miss that finds no empty
\* slot in its set evicts the resident line of the set whose most recent
\* access (install or hit, read or write) is the oldest.
C13_LRUVictim ==
  (policy = "L" /\ ~cache[1].fa)
    => \A n \in 1..N :
         MissOnFullSet(n)
           => /\ VALID \subseteq H[n].victim
              /\ VictimLine(n) \in ResidentBefore(n)
              /\ \A l \in ResidentBefore(n) :
                   LastUse(VictimLine(n), n) <= LastUse(l, n)

\* A miss on a full two-way set whose older install was hit since: the line
\* installed later is the one evicted.
C13_Witness ==
  /\ policy = "L" /\ ~cache[1].fa /\ cache[1].ways = 2
  /\ N >= 4 /\ MissOnFullSet(N)
  /\ \E l \in ResidentBefore(N) :
       /\ Installed(l, N) < Installed(VictimLine(N), N)
       /\ LastUse(l, N) > LastUse(VictimLine(N), N)
       /\ H[LastUse(l, N)].hit

\* C14: in a set-associative model under FIFO, a miss that finds no empty
\* slot in its set evicts the resident line of the set installed earliest;
\* hits between installs do not change which line that is.
C14_FIFOVictim ==
  (policy = "F" /\ ~cache[1].fa)
    => \A n \in 1..N :
         MissOnFullSet(n)
           => /\ VALID \subseteq H[n].victim
              /\ VictimLine(n) \in ResidentBefore(n)
              /\ \A l \in ResidentBefore(n) :
                   Installed(VictimLine(n), n) <= Installed(l, n)

\* A miss on a full two-way set whose oldest install was hit after the other
\* line's install: it is evicted all the same.
C14_Witness ==
  /\ policy = "F" /\ ~cache[1].fa /\ cache[1].ways = 2
  /\ N >= 4 /\ MissOnFullSet(N)
  /\ H[LastUse(VictimLine(N), N)].hit
  /\ \E l \in ResidentBefore(N) :
       /\ l # VictimLine(N)
       /\ LastUse(l, N) < LastUse(VictimLine(N), N)

\* The step is a top-level access on object 1 that hit.
HitStep ==
  /\ Len(hist'[1]) = Len(hist[1]) + 1
  /\ hist'[1][Len(hist'[1])].hit

\* What a hit may change in object 1 besides the policy counters: c is the
\* object before, c2 after, e the access noted. The access and byte counters
\* move by the access; the slot holding the line keeps its tag and VALID flag
\* and gets DIRTY on a store; under LRU its stamp may move; nothing else.
HitFrame(c, c2, e) ==
  /\ c2.read_accesses = c.read_accesses + (IF e.store THEN 0 ELSE 1)
  /\ c2.write_accesses = c.write_accesses + (IF e.store THEN 1 ELSE 0)
  /\ c2.bytes_read = c.bytes_read + (IF e.store THEN 0 ELSE e.bytes)
  /\ c2.bytes_written = c.bytes_written + (IF e.store THEN e.bytes ELSE 0)
  /\ c2.read_misses = c.read_misses /\ c2.write_misses = c.write_misses
  /\ c2.writebacks = c.writebacks
  /\ c2.sets = c.sets /\ c2.ways = c.ways /\ c2.linesz = c.linesz
  /\ c2.idx_shift = c.idx_shift /\ c2.fa = c.fa
  /\ c2.miss_handler = c.miss_handler
  /\ c2.FIFOTime = c.FIFOTime
  /\ \A k \in DOMAIN c.tags :
       IF c.tags[k] \ DIRTY = TagOf(c, e.addr) /\ ~c.fa
       THEN /\ c2.tags[k] = c.tags[k] \cup (IF e.store THEN DIRTY ELSE {})
            /\ policy # "L" => c2.LRUTime[k] = c.LRUTime[k]
       ELSE c2.tags[k] = c.tags[k] /\ c2.LRUTime[k] = c.LRUTime[k]
  /\ c2.fatags =
       {IF x.key = Shr(e.addr, c.idx_shift) /\ e.store
        THEN [x EXCEPT !.val = @ \cup DIRTY] ELSE x : x \in c.fatags}

\* C15 as stated: a hit changes only the access and byte counters, the hit
\* slot's dirty flag and, under LRU, its recency stamp: not the policy
\* counters either; the handler is not called and does not change.
C15_AsStated ==
  [][HitStep
       => /\ HitFrame(cache[1], cache'[1], hist'[1][Len(hist'[1])])
          /\ cache'[1].LRUCount = cache[1].LRUCount
          /\ cache'[1].FIFOCount = cache[1].FIFOCount
          /\ calls' = <<>>
          /\ cache'[2] = cache[2]]_vars

\* C15, amended: a hit changes only the access and byte counters, the
\* active policy's counter (LRUCount under LRU, FIFOCount under FIFO, by
\* one), the hit slot's dirty flag (set on a store) and, under LRU, the hit
\* slot's recency stamp; no miss or writeback counter, no tag or valid flag;
\* the handler is not called and its state is unchanged.
C15_HitFrame ==
  [][HitStep
       => /\ HitFrame(cache[1], cache'[1], hist'[1][Len(hist'[1])])
          /\ cache'[1].LRUCount = cache[1].LRUCount + (IF policy = "L" THEN 1 ELSE 0)
          /\ cache'[1].FIFOCount = cache[1].FIFOCount + (IF policy = "F" THEN 1 ELSE 0)
          /\ calls' = <<>>
          /\ cache'[2] = cache[2]]_vars

\* A write hit under LRU on a line installed clean, in a two-way set, after
\* the handler has been called.
C15_Witness ==
  /\ policy = "L" /\ ~cache[1].fa /\ cache[1].ways = 2
  /\ N = 3 /\ H[N].hit /\ H[N].store
  /\ ~H[1].hit /\ ~H[1].store /\ H[1].addr = H[N].addr
  /\ ~H[2].hit
  /\ cache[2].read_accesses = 2

\* C16: every access on a model applies the policy named in the model's own
\* construction string, whatever was constructed since: the step is the one
\* access makes under config[1].
C16_PolicyFixed ==
  [][Len(hist'[1]) = Len(hist[1]) + 1
       => LET e == hist'[1][Len(hist'[1])]
          IN \E d1 \in [1..1 -> 0..(cache[1].ways - 1)],
                d2 \in [1..2 -> 0..(cache[2].ways - 1)] :
               access(Heap, config[1], <<d1, d2>>, 1, e.addr, e.bytes, e.store).cache
                 = cache']_vars

\* The map entry an access at e.addr leaves for its line after a miss.
NewEntry(c, e) ==
  [key |-> Shr(e.addr, c.idx_shift),
   val |-> TagOf(c, e.addr) \cup (IF e.store THEN DIRTY ELSE {})]

\* C17: in the fully-associative model under Random the tag map never holds
\* more than `ways` entries; a miss below capacity evicts nothing and reports
\* victim 0 (no writeback); a miss at capacity removes exactly one current
\* entry, the victim, before inserting the new tag.
C17_FARandomCapacity ==
  [][(policy = "R" /\ cache[1].fa /\ Len(hist'[1]) = Len(hist[1]) + 1)
       => LET e == hist'[1][Len(hist'[1])]
              c == cache[1]
              c2 == cache'[1]
          IN /\ Cardinality(c2.fatags) <= c.ways
             /\ (~e.hit /\ Cardinality(c.fatags) < c.ways)
                  => /\ e.victim = Word0
                     /\ c2.fatags = c.fatags \cup {NewEntry(c, e)}
                     /\ c2.writebacks = c.writebacks
                     /\ \A k \in 1..Len(calls') : ~calls'[k].store
             /\ (~e.hit /\ Cardinality(c.fatags) = c.ways)
                  => \E x \in c.fatags :
                       /\ e.victim = x.val
                       /\ c2.fatags = (c.fatags \ {x}) \cup {NewEntry(c, e)}
                       /\ Cardinality(c2.fatags) = c.ways]_vars

\* A two-way map under Random that filled without eviction and then, at
\* capacity, gave up a dirty entry.
C17_Witness ==
  /\ policy = "R" /\ cache[1].fa /\ cache[1].ways = 2
  /\ N = 3 /\ \A n \in 1..N : ~H[n].hit
  /\ H[1].victim = Word0 /\ H[2].victim = Word0
  /\ (VALID \cup DIRTY) \subseteq H[3].victim
  /\ Cardinality(cache[1].fatags) = 2

\* The slots of the set of addr in array-based object c that hold its line.
SlotsOf(c, addr) ==
  {k \in (Idx(c, addr) * c.ways)..(Idx(c, addr) * c.ways + c.ways - 1) :
     c.tags[k] \ DIRTY = TagOf(c, addr)}

\* C18: in a set-associative model under R, L or F, when access(addr, n,
\* isWrite) returns, the line of addr is resident and valid in the set addr
\* maps to: dirty if isWrite, clean after a read miss, with its previous
\* dirty flag after a read hit; the calls into the next level change no
\* slot of this level (every other slot is as before), and the next level
\* holds the line it was last called for.
C18_ResidentAfterAccess ==
  [][(~cache[1].fa /\ Len(hist'[1]) = Len(hist[1]) + 1)
       => LET e == hist'[1][Len(hist'[1])]
              c == cache[1]
              c2 == cache'[1]
          IN /\ ~fault'
             /\ \E k \in SlotsOf(c2, e.addr) :
                  /\ SlotsOf(c2, e.addr) = {k}
                  /\ VALID \subseteq c2.tags[k]
                  /\ e.store => DIRTY \subseteq c2.tags[k]
                  /\ (~e.store /\ ~e.hit) => c2.tags[k] \cap DIRTY = {}
                  /\ e.hit => SlotsOf(c, e.addr) = {k}
                  /\ (~e.store /\ e.hit) => c2.tags[k] = c.tags[k]
                  /\ ~e.hit => c.tags[k] = e.victim
                  /\ \A j \in DOMAIN c.tags : j # k => c2.tags[j] = c.tags[j]
             /\ calls' # <<>> =>
                  LET last == calls'[Len(calls')]
                  IN \E k \in SlotsOf(cache'[last.to], last.addr) :
                       VALID \subseteq cache'[last.to].tags[k]]_vars

\* A read hit on a dirty line of a two-way set under Random, after a miss
\* that called the next level.
C18_Witness ==
  /\ ~cache[1].fa /\ policy = "R" /\ cache[1].ways = 2
  /\ N = 3 /\ H[3].hit /\ ~H[3].store
  /\ ~H[2].hit /\ H[2].store /\ H[2].addr = H[3].addr
  /\ \E k \in SlotsOf(cache[1], H[3].addr) : DIRTY \subseteq cache[1].tags[k]
  /\ (VALID \cup DIRTY) \subseteq H[2].victim

\* The accesses of object 1 that evicted a valid, dirty line.
DirtyEvictions ==
  {n \in 1..N : ~H[n].hit /\ (VALID \cup DIRTY) \subseteq H[n].victim}

\* C19: where the second level is accessed only as the first level's miss
\* handler, its read_accesses equals the first level's read_misses +
\* write_misses, its write_accesses the first level's writebacks, and its
\* byte counters those counts times the first level's line size; with or
\* without a handler, writebacks counts every valid-dirty eviction.
C19_TrafficAccounting ==
  LET c1 == cache[1]
      c2 == cache[2]
  IN /\ c1.miss_handler = 2 =>
          /\ c2.read_accesses = c1.read_misses + c1.write_misses
          /\ c2.write_accesses = c1.writebacks
          /\ c2.bytes_read = (c1.read_misses + c1.write_misses) * c1.linesz
          /\ c2.bytes_written = c1.writebacks * c1.linesz
     /\ c1.miss_handler = NULL => c2 = NextLevel /\ calls = <<>>
     /\ c1.writebacks = Cardinality(DirtyEvictions)

\* A chain whose first level wrote a line back and filled three times.
C19_Witness ==
  /\ cache[1].miss_handler = 2
  /\ cache[1].writebacks = 1
  /\ cache[1].read_misses + cache[1].write_misses = 3
  /\ cache[2].bytes_written = cache[1].linesz
  /\ cache[2].read_misses + cache[2].write_misses < 4

RECURSIVE Depth(_)
\* The number of levels of the chain that starts at object id.
Depth(id) ==
  IF cache[id].miss_handler = NULL THEN 1 ELSE 1 + Depth(cache[id].miss_handler)

\* C20: on an acyclic chain of d levels every top-level access call
\* returns, after at most two calls into the next level per miss (one
\* writeback, one fill) and at most 2^d - 1 access calls in all.
C20_Termination ==
  N >= 1
    => /\ ~H[N].fault
       /\ Len(CallsOut) <= 2
       /\ Len(Writes(CallsOut)) <= 1
       /\ 1 + Len(calls) <= 2 ^ Depth(1) - 1

====
